---- MODULE Spec2Model ----
(***************************************************************************)
(* A model of packages/wmr/src/lib/net-utils.js: isPortFree, getFreePort,  *)
(* getPort and getServerAddresses.                                         *)
(*                                                                         *)
(* JavaScript values are modelled as follows.                              *)
(*   - a string that is converted to a number (a port given as text,      *)
(*     process.env.PORT) is a sequence of one-character strings, so that   *)
(*     parseInt and unary plus are computed digit by digit;                *)
(*   - the number NaN is the integer NaN below (ports are never negative); *)
(*   - a URL or an error message is a TLA+ string built with \o, as the    *)
(*     template literal builds it;                                         *)
(*   - the value of a condition is a record [kind, b]: kind "object" for a *)
(*     Promise (or any object), kind "boolean" for true/false.             *)
(***************************************************************************)
EXTENDS Integers, Sequences, FiniteSets, TLC

\* ---------------------------------------------------------------- bounds

\* How many ports after the first free one may independently be occupied.
ExtraSpan == 2
\* The largest number of address records in a network interface snapshot.
MaxRecords == 3

\* ------------------------------------------------------ program constants

\* getPort's default start port: getFreePort(8080).
DefaultPort == 8080
\* The loop bound of getFreePort: while (!found && attempts <= 20).
MaxAttempts == 20
\* The result of a failed number conversion.
NaN == -1

\* ----------------------------------------------------- number conversions

Digits == {"0", "1", "2", "3", "4", "5", "6", "7", "8", "9"}

DigitValue(c) ==
    CASE c = "0" -> 0 [] c = "1" -> 1 [] c = "2" -> 2 [] c = "3" -> 3
      [] c = "4" -> 4 [] c = "5" -> 5 [] c = "6" -> 6 [] c = "7" -> 7
      [] c = "8" -> 8 [] c = "9" -> 9

RECURSIVE DigitsValue(_, _, _)
\* The value of the decimal digits s[i..Len(s)] read after the value acc.
DigitsValue(s, i, acc) ==
    IF i > Len(s) THEN acc
    ELSE DigitsValue(s, i + 1, 10 * acc + DigitValue(s[i]))

RECURSIVE DigitPrefixLen(_, _)
\* The length of the longest run of decimal digits of s that starts at i.
DigitPrefixLen(s, i) ==
    IF i > Len(s) \/ s[i] \notin Digits THEN 0
    ELSE 1 + DigitPrefixLen(s, i + 1)

\* parseInt(s, 10) on a string without sign or white space: the longest
\* prefix of decimal digits, NaN when there is none.
ParseInt(s) ==
    LET n == DigitPrefixLen(s, 1)
    IN  IF n = 0 THEN NaN ELSE DigitsValue(SubSeq(s, 1, n), 1, 0)

\* Unary plus on a string without sign, white space, exponent or radix
\* prefix: 0 for the empty string, the decimal value when every character
\* is a digit, NaN otherwise.
ToNumber(s) ==
    IF \A i \in 1..Len(s) : s[i] \in Digits THEN DigitsValue(s, 1, 0) ELSE NaN

RECURSIVE Join(_)
\* The JavaScript string whose characters are s.
Join(s) == IF s = <<>> THEN "" ELSE Head(s) \o Join(Tail(s))

\* port++ : NaN stays NaN.
Inc(p) == IF p = NaN THEN NaN ELSE p + 1

\* The text a template literal gives a number.
NumberText(n) == IF n = NaN THEN "NaN" ELSE ToString(n)

\* ------------------------------------------------------- the environment

\* What binding a listening socket to a port ends with.
BindResults == {"free", "EADDRINUSE", "EACCES"}

\* A port below 1024, which needs privilege to bind.
PrivilegedPort == 80

\* The ports whose state the operating system model records.
Ports == {0, PrivilegedPort} \cup (DefaultPort .. DefaultPort + MaxAttempts + 1 + ExtraSpan)

\* A state of the ports: the k ports from DefaultPort on are occupied, the
\* next one is free, the ports at the offsets X after it are occupied, the
\* privileged port is in state s80; port 0 (any free port) always binds.
PortState(k, X, s80) ==
    [p \in Ports |->
        IF p = 0 THEN "free"
        ELSE IF p = PrivilegedPort THEN s80
        ELSE IF p < DefaultPort + k THEN "EADDRINUSE"
        ELSE IF (p - (DefaultPort + k)) \in X THEN "EADDRINUSE"
        ELSE "free"]

PortStates ==
    { PortState(k, X, s80) :
        k \in 0 .. MaxAttempts + 2, X \in SUBSET (1 .. ExtraSpan), s80 \in BindResults }

\* The texts a port arrives as.
PortStrings ==
    { <<"8", "0", "8", "1">>, <<"8", "0">>, <<"8", "0", "x">>, <<"x">>, <<>> }

\* process.env.PORT: undefined or a string.
EnvValues ==
    {[defined |-> FALSE, str |-> <<>>]} \cup {[defined |-> TRUE, str |-> s] : s \in PortStrings}

\* ------------------------------------------------------------- the state

VARIABLES
    bindState,          \* the operating system: what binding each port ends with
    envPORT,            \* process.env.PORT
    networkInterfaces,  \* what os.networkInterfaces() returns
    op,                 \* the exported function the caller invoked, "none" before
    arg,                \* its argument
    pc,                 \* where the call stands
    port,               \* getFreePort: port
    attempts,           \* getFreePort: attempts
    found,              \* getFreePort: found
    userPort,           \* getPort: userPort
    probes,             \* the isPortFree calls made so far, in call order
    result,             \* how the call ended: its value or its error
    unhandled,          \* the rejections of promises that nothing awaits
    addresses           \* getServerAddresses: the returned array

vars == <<bindState, envPORT, networkInterfaces, op, arg, pc, port, attempts,
          found, userPort, probes, result, unhandled, addresses>>

Undefined == [type |-> "undefined", num |-> 0, str |-> <<>>]
NumberValue(n) == [type |-> "number", num |-> n, str |-> <<>>]
StringValue(s) == [type |-> "string", num |-> 0, str |-> s]

Pending == [status |-> "pending", value |-> 0, bool |-> FALSE, error |-> ""]
Returned(v) == [status |-> "returned", value |-> v, bool |-> FALSE, error |-> ""]
ReturnedBool(b) == [status |-> "returned", value |-> 0, bool |-> b, error |-> ""]
Threw(e) == [status |-> "threw", value |-> 0, bool |-> FALSE, error |-> e]

\* ---------------------------------------------------------- isPortFree

\* What server.listen({ port }) ends with: listen throws ERR_SOCKET_BAD_PORT
\* for a port that is no integer of 0..65535; a port the model does not
\* record is free.
BindOutcome(p) ==
    IF p = NaN THEN "ERR_SOCKET_BAD_PORT"
    ELSE IF p \in DOMAIN bindState THEN bindState[p]
    ELSE "free"

\* isPortFree(p) up to its await: the server is created and listen is
\* called. A bad port makes listen throw inside the executor, which rejects
\* the inner promise at once.
NewProbe(p, isAwaited) ==
    [port |-> p,
     socket |-> IF p = NaN THEN "errored" ELSE "binding",
     code |-> IF p = NaN THEN "ERR_SOCKET_BAD_PORT" ELSE "",
     promise |-> "pending",
     awaited |-> isAwaited]

\* The synchronous part of a call runs to completion before any event.
Running == pc \in {"gfp_loop", "gfp_return"}

\* The server's 'listening' event, whose callback calls server.close, or
\* its 'error' event, which rejects the inner promise.
ServerListen(i) ==
    /\ ~Running
    /\ probes[i].socket = "binding"
    /\ probes' = [probes EXCEPT ![i] =
            IF BindOutcome(probes[i].port) = "free"
            THEN [@ EXCEPT !.socket = "closing"]
            ELSE [@ EXCEPT !.socket = "errored", !.code = BindOutcome(probes[i].port)]]
    /\ UNCHANGED <<bindState, envPORT, networkInterfaces, op, arg, pc, port,
                   attempts, found, userPort, result, unhandled, addresses>>

\* The server's 'close' event: the callback of server.close resolves the
\* inner promise.
ServerClose(i) ==
    /\ ~Running
    /\ probes[i].socket = "closing"
    /\ probes' = [probes EXCEPT ![i].socket = "closed"]
    /\ UNCHANGED <<bindState, envPORT, networkInterfaces, op, arg, pc, port,
                   attempts, found, userPort, result, unhandled, addresses>>

\* What isPortFree's promise settles to once the inner promise has settled:
\* true, false for EADDRINUSE, the rethrown error otherwise.
SettledAs(probe) ==
    IF probe.socket = "closed" THEN "true"
    ELSE IF probe.code # "EADDRINUSE" THEN "rejected"
    ELSE "false"

\* isPortFree after its await. A rejection of a promise that nothing awaits
\* is an unhandled rejection.
IsPortFreeSettle(i) ==
    /\ ~Running
    /\ probes[i].socket \in {"closed", "errored"}
    /\ probes[i].promise = "pending"
    /\ probes' = [probes EXCEPT ![i].promise = SettledAs(probes[i])]
    /\ unhandled' =
            IF SettledAs(probes[i]) = "rejected" /\ ~probes[i].awaited
            THEN unhandled \cup {probes[i].code}
            ELSE unhandled
    /\ UNCHANGED <<bindState, envPORT, networkInterfaces, op, arg, pc, port,
                   attempts, found, userPort, result, addresses>>

\* A caller invokes isPortFree(p) and awaits it.
CallIsPortFree(p) ==
    /\ pc = "idle"
    /\ op' = "isPortFree"
    /\ arg' = NumberValue(p)
    /\ probes' = Append(probes, NewProbe(p, TRUE))
    /\ pc' = "ipf_await"
    /\ UNCHANGED <<bindState, envPORT, networkInterfaces, port, attempts, found,
                   userPort, result, unhandled, addresses>>

\* The caller's await of isPortFree(p) ends.
IsPortFreeDone ==
    /\ pc = "ipf_await"
    /\ probes[Len(probes)].promise # "pending"
    /\ result' =
            IF probes[Len(probes)].promise = "rejected"
            THEN Threw(probes[Len(probes)].code)
            ELSE ReturnedBool(probes[Len(probes)].promise = "true")
    /\ pc' = "done"
    /\ UNCHANGED <<bindState, envPORT, networkInterfaces, op, arg, port, attempts,
                   found, userPort, probes, unhandled, addresses>>

\* ---------------------------------------------------------- getFreePort

\* The truth value JavaScript gives the value of a condition: every object
\* is true, a boolean is itself.
ToBoolean(v) == IF v.kind = "object" THEN TRUE ELSE v.b

\* The loop condition written `isPortFree(port) === true`: a Promise is not
\* strictly equal to true, so the value is the boolean false.
ComparedLoopCondition(probe) == [kind |-> "boolean", b |-> FALSE]

\* The value of the condition `isPortFree(port)` of getFreePort's loop: the
\* call is not awaited, so the value is the Promise the call returns.
LoopCondition(probe) == [kind |-> "object", b |-> FALSE]

\* if (typeof port === 'string') port = parseInt(port, 10);
EntryPort(input) == IF input.type = "string" THEN ParseInt(input.str) ELSE input.num

\* A caller invokes getFreePort(input): the function up to its loop.
CallGetFreePort(input) ==
    /\ pc = "idle"
    /\ op' = "getFreePort"
    /\ arg' = input
    /\ found' = FALSE
    /\ attempts' = 0
    /\ port' = EntryPort(input)
    /\ pc' = "gfp_loop"
    /\ UNCHANGED <<bindState, envPORT, networkInterfaces, userPort, probes, result,
                   unhandled, addresses>>

\* One evaluation of the loop condition and, when it holds, one run of the
\* loop body: the call of isPortFree(port) starts a probe, then either break
\* or port++ and attempts++.
GetFreePortLoop ==
    /\ pc = "gfp_loop"
    /\ IF ~found /\ attempts <= MaxAttempts
       THEN /\ probes' = Append(probes, NewProbe(port, FALSE))
            /\ IF ToBoolean(LoopCondition(NewProbe(port, FALSE)))
               THEN /\ pc' = "gfp_return"
                    /\ UNCHANGED <<port, attempts>>
               ELSE /\ port' = Inc(port)
                    /\ attempts' = attempts + 1
                    /\ pc' = pc
       ELSE /\ pc' = "gfp_return"
            /\ UNCHANGED <<port, attempts, probes>>
    /\ UNCHANGED <<bindState, envPORT, networkInterfaces, op, arg, found, userPort,
                   result, unhandled, addresses>>

\* return port; when getPort made the call, its `return await getFreePort(8080)`
\* returns the same value.
GetFreePortReturn ==
    /\ pc = "gfp_return"
    /\ result' = Returned(port)
    /\ pc' = "done"
    /\ UNCHANGED <<bindState, envPORT, networkInterfaces, op, arg, port, attempts,
                   found, userPort, probes, unhandled, addresses>>

\* -------------------------------------------------------------- getPort

\* A test of options.port by its truth value, which takes 0 for absent.
IsTruthyNumber(v) == v.type = "number" /\ v.num # 0

\* typeof options.port === 'number'
IsNumber(v) == v.type = "number"

\* const userPort = typeof options.port === 'number' ? options.port : process.env.PORT;
UserPortOf(options, env) ==
    IF IsNumber(options) THEN NumberValue(options.num)
    ELSE IF env.defined THEN StringValue(env.str)
    ELSE Undefined

\* +userPort
Plus(v) == IF v.type = "number" THEN v.num ELSE ToNumber(v.str)

\* ${userPort}
TemplateText(v) == IF v.type = "number" THEN NumberText(v.num) ELSE Join(v.str)

\* The message of the error getPort throws.
PortTakenMessage(v) ==
    "Another process is already running on port " \o TemplateText(v)
        \o ". Please choose a different port."

\* The condition of getPort without its await: the Promise itself.
UnawaitedCondition(probe) == [kind |-> "object", b |-> FALSE]

\* The value of the condition `await isPortFree(+userPort)`: the boolean the
\* promise was fulfilled with.
AwaitedCondition(probe) == [kind |-> "boolean", b |-> probe.promise = "true"]

\* A caller invokes getPort(options): the function up to its first await,
\* which is the probe of the requested port or the call of getFreePort(8080).
CallGetPort(options) ==
    /\ pc = "idle"
    /\ op' = "getPort"
    /\ arg' = options
    /\ userPort' = UserPortOf(options, envPORT)
    /\ IF UserPortOf(options, envPORT) # Undefined
       THEN /\ probes' = Append(probes, NewProbe(Plus(UserPortOf(options, envPORT)), TRUE))
            /\ pc' = "gp_await"
            /\ UNCHANGED <<port, attempts, found>>
       ELSE /\ found' = FALSE
            /\ attempts' = 0
            /\ port' = EntryPort(NumberValue(DefaultPort))
            /\ pc' = "gfp_loop"
            /\ UNCHANGED probes
    /\ UNCHANGED <<bindState, envPORT, networkInterfaces, result, unhandled, addresses>>

\* getPort after `await isPortFree(+userPort)`: a rejection is thrown on,
\* true returns the port, false throws the error.
GetPortResume ==
    /\ pc = "gp_await"
    /\ probes[Len(probes)].promise # "pending"
    /\ result' =
            IF probes[Len(probes)].promise = "rejected"
            THEN Threw(probes[Len(probes)].code)
            ELSE IF ToBoolean(AwaitedCondition(probes[Len(probes)]))
            THEN Returned(Plus(userPort))
            ELSE Threw(PortTakenMessage(userPort))
    /\ pc' = "done"
    /\ UNCHANGED <<bindState, envPORT, networkInterfaces, op, arg, port, attempts,
                   found, userPort, probes, unhandled, addresses>>

\* --------------------------------------------------- getServerAddresses

\* The address records the operating system may report.
IfaceRecords ==
    { [family |-> "IPv4", address |-> "127.0.0.1", internal |-> TRUE],
      [family |-> "IPv4", address |-> "192.168.1.5", internal |-> FALSE],
      [family |-> "IPv4", address |-> "10.0.0.2", internal |-> FALSE],
      [family |-> "IPv4", address |-> "0.0.0.0", internal |-> FALSE],
      [family |-> "IPv6", address |-> "fe80::1", internal |-> FALSE] }

\* The sequences over S of length at most n.
SeqsUpTo(S, n) == UNION { [1 .. k -> S] : k \in 0 .. n }

RECURSIVE Split(_, _, _)
\* The records flat[from..] cut into interfaces after the positions of cuts.
Split(flat, cuts, from) ==
    IF from > Len(flat) THEN <<>>
    ELSE LET ends == { c \in cuts \cup {Len(flat)} : c >= from }
             end == CHOOSE c \in ends : \A d \in ends : c <= d
         IN  <<SubSeq(flat, from, end)>> \o Split(flat, cuts, end + 1)

\* The values of os.networkInterfaces(): the interfaces in the order of the
\* object's keys, each with its list of address records, which is never
\* empty.
Snapshots ==
    UNION { { Split(flat, cuts, 1) : cuts \in SUBSET (1 .. Len(flat) - 1) } :
            flat \in SeqsUpTo(IfaceRecords, MaxRecords) }

\* `${protocol}//${host}:${port}`
Url(protocol, host, portNumber) ==
    protocol \o "//" \o host \o ":" \o NumberText(portNumber)

\* const protocol = https ? 'https:' : 'http:';
Protocol(https) == IF https THEN "https:" ELSE "http:"

\* The test of an address record without its `!internal`.
IfaceListedInternalToo(iface, host) ==
    iface.family = "IPv4" /\ iface.address # host

\* family === 'IPv4' && address !== host && !internal
IfaceListed(iface, host) ==
    iface.family = "IPv4" /\ iface.address # host /\ ~iface.internal

RECURSIVE PushIfaces(_, _, _, _, _, _)
\* The two nested loops from the record j of the interface i on, pushing
\* onto acc.
PushIfaces(acc, ifaces, i, j, protocol, options) ==
    IF i > Len(ifaces) THEN acc
    ELSE IF j > Len(ifaces[i]) THEN PushIfaces(acc, ifaces, i + 1, 1, protocol, options)
    ELSE PushIfaces(
            IF IfaceListed(ifaces[i][j], options.host)
            THEN Append(acc, Url(protocol, ifaces[i][j].address, options.addrPort))
            ELSE acc,
            ifaces, i, j + 1, protocol, options)

\* getServerAddresses without its `host !== '0.0.0.0'` branch: every host is
\* listed as the wildcard is.
GetServerAddressesAllHosts(options, ifaces) ==
    IF options.addrType = "string" THEN <<options.addrStr>>
    ELSE PushIfaces(<<Url(Protocol(options.https), "localhost", options.addrPort)>>,
                    ifaces, 1, 1, Protocol(options.https), options)

\* getServerAddresses(addr, { host, https }); options carries addr as
\* addrType, addrStr (a string addr) and addrPort (addr.port).
GetServerAddresses(options, ifaces) ==
    IF options.addrType = "string" THEN <<options.addrStr>>
    ELSE IF options.host # "0.0.0.0"
    THEN <<Url(Protocol(options.https), options.host, options.addrPort)>>
    ELSE PushIfaces(<<Url(Protocol(options.https), "localhost", options.addrPort)>>,
                    ifaces, 1, 1, Protocol(options.https), options)

\* The arguments of getServerAddresses.
AddressInputs ==
    { [addrType |-> "string", addrStr |-> "/tmp/wmr.sock", addrPort |-> 0,
       host |-> h, https |-> t] : h \in {"0.0.0.0", "192.168.1.5"}, t \in BOOLEAN }
    \cup
    { [addrType |-> "object", addrStr |-> "", addrPort |-> 3000,
       host |-> h, https |-> t] : h \in {"0.0.0.0", "192.168.1.5"}, t \in BOOLEAN }

\* A caller invokes getServerAddresses(addr, options).
CallGetServerAddresses(options) ==
    /\ pc = "idle"
    /\ op' = "getServerAddresses"
    /\ arg' = options
    /\ addresses' = GetServerAddresses(options, networkInterfaces)
    /\ pc' = "done"
    /\ UNCHANGED <<bindState, envPORT, networkInterfaces, port, attempts, found,
                   userPort, probes, result, unhandled>>

\* ------------------------------------------------------ specifications

\* The numbers isPortFree is called with.
ProbeInputs == {0, PrivilegedPort, DefaultPort}

\* The arguments of getFreePort: numbers and texts.
StartInputs ==
    { NumberValue(n) : n \in {PrivilegedPort, DefaultPort, DefaultPort + 1, DefaultPort + 3} }
    \cup { StringValue(s) : s \in PortStrings }

\* The values of options.port: a number, a text, or absent.
OptionInputs ==
    { NumberValue(n) : n \in {0, PrivilegedPort, DefaultPort, DefaultPort + 1} }
    \cup { StringValue(<<"8", "0", "8", "1">>), Undefined }

Idle ==
    /\ op = "none"
    /\ arg = Undefined
    /\ pc = "idle"
    /\ port = 0
    /\ attempts = 0
    /\ found = FALSE
    /\ userPort = Undefined
    /\ probes = <<>>
    /\ result = Pending
    /\ unhandled = {}
    /\ addresses = <<>>

\* Before a call of isPortFree, getFreePort or getPort: any state of the
\* ports and of process.env.PORT. No other process binds or releases a port
\* while the call runs.
Init ==
    /\ bindState \in PortStates
    /\ envPORT \in EnvValues
    /\ networkInterfaces = <<>>
    /\ Idle

Next ==
    \/ \E p \in ProbeInputs : CallIsPortFree(p)
    \/ IsPortFreeDone
    \/ \E input \in StartInputs : CallGetFreePort(input)
    \/ GetFreePortLoop
    \/ GetFreePortReturn
    \/ \E options \in OptionInputs : CallGetPort(options)
    \/ GetPortResume
    \/ \E i \in DOMAIN probes : ServerListen(i)
    \/ \E i \in DOMAIN probes : ServerClose(i)
    \/ \E i \in DOMAIN probes : IsPortFreeSettle(i)

Spec == Init /\ [][Next]_vars

\* Before a call of getServerAddresses: any network interface snapshot.
InitAddresses ==
    /\ bindState = PortState(0, {}, "free")
    /\ envPORT = [defined |-> FALSE, str |-> <<>>]
    /\ networkInterfaces \in Snapshots
    /\ Idle

NextAddresses == \E options \in AddressInputs : CallGetServerAddresses(options)

SpecAddresses == InitAddresses /\ [][NextAddresses]_vars

\* ---------------------------------------------------------- properties

\* The call has returned to, or thrown at, its caller.
Finished == pc = "done"

\* The call runs getFreePort: directly, or from getPort when no port was
\* requested.
RunsSearch ==
    \/ op = "getFreePort"
    \/ op = "getPort" /\ arg.type # "number" /\ ~envPORT.defined

\* The port the search starts at.
SearchStart == IF op = "getFreePort" THEN EntryPort(arg) ELSE DefaultPort

\* The ports the search may examine.
SearchRange == SearchStart .. SearchStart + MaxAttempts

\* A port was requested of getPort.
Requested == op = "getPort" /\ (arg.type = "number" \/ envPORT.defined)

\* The requested port as a number and as the text of the message.
RequestedNumber == IF arg.type = "number" THEN arg.num ELSE ToNumber(envPORT.str)
RequestedText == IF arg.type = "number" THEN ToString(arg.num) ELSE Join(envPORT.str)

\* C1: when at least one port of P..P+20 is free (and the others occupied),
\* getFreePort(P) returns the smallest free port Q >= P.
C1_ReturnsFirstFree ==
    (/\ op = "getFreePort" /\ Finished /\ SearchStart # NaN
     /\ \A q \in SearchRange : BindOutcome(q) \in {"free", "EADDRINUSE"}
     /\ \E q \in SearchRange : BindOutcome(q) = "free")
    => /\ result.status = "returned"
       /\ BindOutcome(result.value) = "free"
       /\ result.value \in SearchRange
       /\ \A q \in SearchStart .. result.value - 1 : BindOutcome(q) # "free"

\* C3: for an integer start port P, the value getFreePort(P) returns lies in
\* P..P+20, and the port was incremented at most 20 times.
C3_ResultInRange ==
    (RunsSearch /\ Finished /\ SearchStart # NaN)
    => /\ result.status = "returned"
       /\ result.value \in SearchRange
       /\ attempts <= MaxAttempts
       /\ port - SearchStart <= MaxAttempts

\* C3 witness: a search that started at an occupied port has returned.
C3_Witness ==
    /\ op = "getFreePort" /\ Finished /\ SearchStart # NaN
    /\ BindOutcome(SearchStart) = "EADDRINUSE"
    /\ result.status = "returned"

\* C4: when the 21 ports P..P+20 are all occupied, getFreePort(P) returns
\* P+20 after exactly 21 probes.
C4_FallbackAfter21Probes ==
    (/\ op = "getFreePort" /\ Finished /\ SearchStart # NaN
     /\ \A q \in SearchRange : BindOutcome(q) = "EADDRINUSE")
    => /\ result = Returned(SearchStart + MaxAttempts)
       /\ Len(probes) = MaxAttempts + 1

\* C5: a bind failure other than EADDRINUSE is never a boolean result: the
\* probe rejects with that error, and the call of isPortFree, getFreePort or
\* getPort that made the probe fails with it; false means EADDRINUSE.
C5_BindFailurePropagates ==
    \A i \in DOMAIN probes :
        /\ probes[i].promise = "false" => probes[i].code = "EADDRINUSE"
        /\ (/\ probes[i].socket = "errored"
            /\ probes[i].code # "EADDRINUSE"
            /\ probes[i].promise # "pending")
           => /\ probes[i].promise = "rejected"
              /\ Finished => result = Threw(probes[i].code)

\* C7: a port returned by getFreePort or getPort was reported free by a
\* completed probe of that port made during the call.
C7_ReturnedPortWasProbedFree ==
    (op \in {"getFreePort", "getPort"} /\ result.status = "returned")
    => \E i \in DOMAIN probes :
          probes[i].port = result.value /\ probes[i].promise = "true"

\* A probe that has not finished: its socket is open or its result is not
\* yet there.
ProbePending(i) == probes[i].promise = "pending"

\* C10: during getFreePort at most one probe is in flight, and none is
\* still pending when getFreePort returns.
C10_ProbesSequentialAndDone ==
    RunsSearch
    => /\ Cardinality({ i \in DOMAIN probes : ProbePending(i) }) <= 1
       /\ result.status # "pending" => \A i \in DOMAIN probes : ~ProbePending(i)

\* C2 as stated: getPort fails if and only if a port was requested and its
\* probe reports it occupied, then with the message for the requested port;
\* a requested port that is free is returned; without a request the error
\* is never raised.
C2_FailsIffRequestedOccupied ==
    (op = "getPort" /\ Finished)
    => /\ result.status = "threw"
            <=> (Requested /\ probes[1].promise = "false")
       /\ result.status = "threw"
            => result.error = "Another process is already running on port "
                    \o RequestedText \o ". Please choose a different port."
       /\ (Requested /\ probes[1].promise = "true")
            => result = Returned(RequestedNumber)

\* C2 amended: getPort throws the 'Another process ...' error if and only if
\* a port was requested and its probe reports it occupied; it returns the
\* requested port as a number if and only if that probe reports it free; it
\* fails with the probe's own error when the probe of the requested port
\* fails for another reason; without a request it never fails.
C2_Amended ==
    (op = "getPort" /\ Finished)
    => /\ result.status = "threw"
            <=> (Requested /\ probes[1].promise \in {"false", "rejected"})
       /\ (Requested /\ probes[1].promise = "false")
            => result = Threw("Another process is already running on port "
                    \o RequestedText \o ". Please choose a different port.")
       /\ (Requested /\ probes[1].promise = "rejected")
            => /\ result = Threw(probes[1].code)
               /\ probes[1].code \in {"EACCES", "ERR_SOCKET_BAD_PORT"}
       /\ (Requested /\ probes[1].promise = "true")
            => result = Returned(RequestedNumber)
       /\ Requested => Len(probes) = 1 /\ probes[1].port = RequestedNumber

\* C2 witness: getPort has thrown the error for a requested, occupied port.
C2_Witness ==
    /\ op = "getPort" /\ Finished /\ Requested
    /\ BindOutcome(RequestedNumber) = "EADDRINUSE"
    /\ result.status = "threw"
    /\ probes[1].promise = "false"

\* C6: getPort runs getFreePort(8080) exactly when options.port is not a
\* number and process.env.PORT is undefined; a numeric options.port, 0
\* included, is probed and returned when free; getPort({}) without override
\* and with port 8080 free returns 8080.
C6_DelegatesExactlyWhenUnrequested ==
    (op = "getPort" /\ Finished)
    => /\ IF arg.type # "number" /\ ~envPORT.defined
          THEN /\ probes[1].port = DefaultPort
               /\ ~probes[1].awaited
               /\ result = Returned(port)
               /\ BindOutcome(DefaultPort) = "free" => result = Returned(DefaultPort)
          ELSE /\ Len(probes) = 1
               /\ probes[1].awaited
               /\ probes[1].port = RequestedNumber
               /\ probes[1].promise = "true" => result = Returned(RequestedNumber)
       /\ arg.type = "number"
            => /\ probes[1].port = arg.num
               /\ BindOutcome(arg.num) = "free" => result = Returned(arg.num)

\* C6 witness: getPort({port: 0}) has returned 0.
C6_Witness ==
    /\ op = "getPort" /\ Finished
    /\ arg = NumberValue(0)
    /\ result = Returned(0)

\* The address records of a snapshot in the order of enumeration.
RECURSIVE Flatten(_)
Flatten(ifaces) == IF ifaces = <<>> THEN <<>> ELSE Head(ifaces) \o Flatten(Tail(ifaces))

\* The scheme of the URLs: 'https:' iff the TLS option is set.
Scheme == IF arg.https THEN "https:" ELSE "http:"

\* C8: for a structured address with port N and the wildcard host,
\* getServerAddresses returns '<scheme>//localhost:N' followed by one URL
\* '<scheme>//<address>:N' for each record that is IPv4, not internal and
\* not the wildcard address, in the order of enumeration.
C8_WildcardListsExternalIPv4 ==
    (/\ op = "getServerAddresses" /\ Finished
     /\ arg.addrType = "object" /\ arg.host = "0.0.0.0")
    => LET Wanted(r) == r.family = "IPv4" /\ ~r.internal /\ r.address # "0.0.0.0"
           listed == SelectSeq(Flatten(networkInterfaces), Wanted)
       IN  /\ Len(addresses) = 1 + Len(listed)
           /\ addresses[1] = Scheme \o "//localhost:" \o ToString(arg.addrPort)
           /\ \A i \in 1 .. Len(listed) :
                 addresses[i + 1] =
                    Scheme \o "//" \o listed[i].address \o ":" \o ToString(arg.addrPort)

\* C8 witness: a wildcard listing of a snapshot of two interfaces that
\* holds an internal record and two listed ones.
C8_Witness ==
    /\ op = "getServerAddresses" /\ Finished
    /\ arg.addrType = "object" /\ arg.host = "0.0.0.0" /\ arg.https
    /\ Len(networkInterfaces) = 2
    /\ \E i \in 1 .. Len(Flatten(networkInterfaces)) : Flatten(networkInterfaces)[i].internal
    /\ addresses = <<"https://localhost:3000", "https://192.168.1.5:3000",
                     "https://10.0.0.2:3000">>

\* C9: getServerAddresses returns exactly one element whatever the snapshot:
\* a string addr itself, and for a structured addr with a host other than
\* '0.0.0.0' the URL '<scheme>//<host>:<port>'.
C9_SingleAddress ==
    (op = "getServerAddresses" /\ Finished)
    => /\ arg.addrType = "string" => addresses = <<arg.addrStr>>
       /\ (arg.addrType = "object" /\ arg.host # "0.0.0.0")
            => addresses =
                  <<Scheme \o "//" \o arg.host \o ":" \o ToString(arg.addrPort)>>

\* C9 witness: an explicit host with a snapshot that holds a record the
\* wildcard would list.
C9_Witness ==
    /\ op = "getServerAddresses" /\ Finished
    /\ arg.addrType = "object" /\ arg.host = "192.168.1.5"
    /\ \E i \in 1 .. Len(Flatten(networkInterfaces)) :
          Flatten(networkInterfaces)[i].address = "10.0.0.2"
    /\ addresses = <<"http://192.168.1.5:3000">>

====
